---------------------------- MODULE Spec2Model ----------------------------
(***************************************************************************)
(* A model of the segment trie router of router.go: the mutable Builder    *)
(* (place, set, Handle, HandleAll, Build) and the serving side (find,      *)
(* ServeHTTP).  Strings are sequences of one-character strings, so that    *)
(* segment splitting, slicing and trimming are computed as the code        *)
(* computes them.  Pointers are indices into the three object stores of    *)
(* the heap (router structs, child maps, route structs); index 0 is nil.   *)
(***************************************************************************)
EXTENDS Integers, Sequences, FiniteSets, TLC

VARIABLES
    heap,   \* the Go heap: [routers, maps, routes], three sequences of objects
    built,  \* the handlers returned by Build so far (router addresses), oldest first
    log,    \* history: the Handle/HandleAll calls made since the last Build (or New)
    snap,   \* history: snap[i] is the value of log when built[i] was returned
    ncalls, \* history: the number of Handle/HandleAll calls made so far
    resp,   \* the last sequential dispatch: [target, method, path, out], or NoResp
    frozen, \* history: the heap as the last Build left it
    procs   \* the in-flight dispatches of the serving phase, one record per goroutine

vars == <<heap, built, log, snap, ncalls, resp, frozen, procs>>

-----------------------------------------------------------------------------
(* Bounds of the model.                                                    *)

\* the longest registered or requested path, in segments (SpecMatch)
MaxSegs == 3
\* the number of Handle calls before the single Build of SpecMatch
MaxRegs == 2
\* the longest registered or requested path, in segments (Spec)
MaxDepth == 1
\* the number of Handle/HandleAll calls on the builder (Spec)
MaxCalls == 2
\* the number of Build calls on the builder (Spec)
MaxBuilds == 2
\* the number of concurrent dispatches (SpecServe)
NumProcs == 2

-----------------------------------------------------------------------------
(* Program constants.                                                      *)

Nil == 0

Delete == 0
Get == 1
HeadVerb == 2
Options == 3
Patch == 4
Post == 5
Put == 6
unknownVerb == 7

Verbs == 0 .. (unknownVerb - 1)

verbs ==
    [m \in {"DELETE", "GET", "HEAD", "OPTIONS", "PATCH", "POST", "PUT"} |->
        CASE m = "DELETE" -> Delete
          [] m = "GET" -> Get
          [] m = "HEAD" -> HeadVerb
          [] m = "OPTIONS" -> Options
          [] m = "PATCH" -> Patch
          [] m = "POST" -> Post
          [] m = "PUT" -> Put]

-----------------------------------------------------------------------------
(* Strings.                                                                *)

Slash == "/"
Star == "*"

\* strings.Index(s, c): the 0-based index of the first c in s, or -1
Index(s, c) ==
    IF \E i \in 1 .. Len(s) : s[i] = c
    THEN (CHOOSE i \in 1 .. Len(s) : s[i] = c /\ \A j \in 1 .. (i - 1) : s[j] # c) - 1
    ELSE -1

\* s[n:]
SliceFrom(s, n) == SubSeq(s, n + 1, Len(s))

\* s[:n]
SliceTo(s, n) == SubSeq(s, 1, n)

\* strings.TrimRight(s, c): s without all of its trailing c
RECURSIVE TrimRight(_, _)
TrimRight(s, c) ==
    IF Len(s) > 0 /\ s[Len(s)] = c THEN TrimRight(SliceTo(s, Len(s) - 1), c) ELSE s

\* the next path component: the text up to and including the next "/", or
\* the whole path when it holds none
NextKey(path) ==
    LET ix == Index(path, Slash)
    IN  IF ix >= 0 THEN SliceTo(path, ix + 1) ELSE path

\* the wildcard key that stands for component k: "*/" when k ends in "/", else "*"
WildKey(k) == IF k[Len(k)] = Slash THEN <<Star, Slash>> ELSE <<Star>>

-----------------------------------------------------------------------------
(* The heap.                                                               *)

\* router{}: the zero router struct
ZeroRouter == [ch |-> Nil, rt |-> Nil]

\* map[string]*router{}: an empty child map (a function with an empty domain)
EmptyMap == [k \in {} |-> Nil]

\* route{}: a verb table with every slot nil
ZeroRoute == [vb |-> [v \in Verbs |-> Nil]]

\* New(): a heap holding one zero router, the Builder, at address 1
Builder == 1
NewHeap == [routers |-> <<ZeroRouter>>, maps |-> <<>>, routes |-> <<>>]

\* r.ch[k]: a read of a child map; a nil map and an absent key both read nil
Child(H, r, k) ==
    LET m == H.routers[r].ch
    IN  IF m = Nil THEN Nil
        ELSE IF k \in DOMAIN H.maps[m] THEN H.maps[m][k] ELSE Nil

\* r.rt != nil
Routed(H, r) == H.routers[r].rt # Nil

\* m[k] = c on the map object at address m
MapPut(H, m, k, c) ==
    [H EXCEPT !.maps[m] =
        [x \in (DOMAIN H.maps[m]) \cup {k} |-> IF x = k THEN c ELSE H.maps[m][x]]]

\* place: walk path from r one component at a time, creating the child map
\* and the child router where they are missing; returns the heap and the
\* router the walk ends on
RECURSIVE place(_, _, _)
place(H, r, path) ==
    IF path = <<>> THEN [heap |-> H, node |-> r]
    ELSE
        LET H1 == IF H.routers[r].ch = Nil
                  THEN [H EXCEPT !.maps = Append(H.maps, EmptyMap),
                                 !.routers[r].ch = Len(H.maps) + 1]
                  ELSE H
            ix == Index(path, Slash)
            k  == IF ix >= 0 THEN SliceTo(path, ix + 1) ELSE path
            c0 == Child(H1, r, k)
            H2 == IF c0 = Nil
                  THEN MapPut([H1 EXCEPT !.routers = Append(H1.routers, ZeroRouter)],
                              H1.routers[r].ch, k, Len(H1.routers) + 1)
                  ELSE H1
            ch == IF c0 = Nil THEN Len(H1.routers) + 1 ELSE c0
        IN  place(H2, ch, SliceFrom(path, Len(k)))

\* set that makes a new route on every call
setFreshRoute(H, r, verb, h) ==
    LET H1 == [H EXCEPT !.routes = Append(H.routes, ZeroRoute),
                        !.routers[r].rt = Len(H.routes) + 1]
    IN  [H1 EXCEPT !.routes[H1.routers[r].rt].vb[verb] = h]

\* set: store h in the verb slot of r's route, creating the route when r has none
set(H, r, verb, h) ==
    LET H1 == IF H.routers[r].rt = Nil
              THEN [H EXCEPT !.routes = Append(H.routes, ZeroRoute),
                             !.routers[r].rt = Len(H.routes) + 1]
              ELSE H
    IN  [H1 EXCEPT !.routes[H1.routers[r].rt].vb[verb] = h]

\* find with the wildcard child tried before the literal child
RECURSIVE findWildcardFirst(_, _, _, _)
findWildcardFirst(H, r, path, names) ==
    IF path = <<>> THEN [node |-> r, names |-> names]
    ELSE
        LET ix   == Index(path, Slash)
            k    == IF ix >= 0 THEN SliceTo(path, ix + 1) ELSE path
            rest == SliceFrom(path, Len(k))
            w    == IF k[Len(k)] = Slash THEN <<Star, Slash>> ELSE <<Star>>
            cw   == Child(H, r, w)
            wild == IF cw # Nil
                    THEN findWildcardFirst(H, cw, rest, Append(names, TrimRight(k, Slash)))
                    ELSE [node |-> Nil, names |-> names]
        IN  IF cw # Nil /\ wild.node # Nil /\ Routed(H, wild.node) THEN wild
            ELSE
                LET c   == Child(H, r, k)
                    lit == findWildcardFirst(H, c, rest, wild.names)
                IN  IF c = Nil THEN [node |-> Nil, names |-> wild.names]
                    ELSE IF lit.node # Nil /\ Routed(H, lit.node) THEN lit
                    ELSE [node |-> Nil, names |-> lit.names]

\* find in which a literal child that exists ends the search at its node:
\* the wildcard child is only tried when there is no literal child
RECURSIVE findNoFallback(_, _, _, _)
findNoFallback(H, r, path, names) ==
    IF path = <<>> THEN [node |-> r, names |-> names]
    ELSE
        LET ix   == Index(path, Slash)
            k    == IF ix >= 0 THEN SliceTo(path, ix + 1) ELSE path
            rest == SliceFrom(path, Len(k))
            c    == Child(H, r, k)
            lit  == findNoFallback(H, c, rest, names)
        IN  IF c # Nil
            THEN (IF lit.node # Nil /\ Routed(H, lit.node) THEN lit
                  ELSE [node |-> Nil, names |-> lit.names])
            ELSE
                LET w    == IF k[Len(k)] = Slash THEN <<Star, Slash>> ELSE <<Star>>
                    cw   == Child(H, r, w)
                    wild == findNoFallback(H, cw, rest, Append(names, TrimRight(k, Slash)))
                IN  IF cw = Nil THEN [node |-> Nil, names |-> names]
                    ELSE IF wild.node # Nil /\ Routed(H, wild.node) THEN wild
                    ELSE [node |-> Nil, names |-> wild.names]

\* find: the lookup.  names is the slice behind the caller's *[]string: the
\* call returns the node (or nil) and the slice as the call left it, which
\* the next call of the same lookup appends to.
RECURSIVE find(_, _, _, _)
find(H, r, path, names) ==
    IF path = <<>> THEN [node |-> r, names |-> names]
    ELSE
        LET ix   == Index(path, Slash)
            k    == IF ix >= 0 THEN SliceTo(path, ix + 1) ELSE path
            rest == SliceFrom(path, Len(k))
            c    == Child(H, r, k)
            lit  == IF c # Nil THEN find(H, c, rest, names)
                    ELSE [node |-> Nil, names |-> names]
        IN  IF c # Nil /\ lit.node # Nil /\ Routed(H, lit.node) THEN lit
            ELSE
                LET w    == IF k[Len(k)] = Slash THEN <<Star, Slash>> ELSE <<Star>>
                    cw   == Child(H, r, w)
                    wild == find(H, cw, rest, Append(lit.names, TrimRight(k, Slash)))
                IN  IF cw = Nil THEN [node |-> Nil, names |-> lit.names]
                    ELSE IF wild.node # Nil /\ Routed(H, wild.node) THEN wild
                    ELSE [node |-> Nil, names |-> wild.names]

\* The outcomes of a dispatch: one handler called once with the captures, a
\* 404, a 405, or a run-time panic.  t is ServeHTTP's local t where the
\* lookup ran.
Called(h, names, t) == [kind |-> "handler", h |-> h, names |-> names, t |-> t]
NotFound(t) == [kind |-> "404", h |-> Nil, names |-> <<>>, t |-> t]
MethodNotAllowed(t) == [kind |-> "405", h |-> Nil, names |-> <<>>, t |-> t]
Panic == [kind |-> "panic", h |-> Nil, names |-> <<>>, t |-> Nil]

\* ServeHTTP that answers an empty verb slot like a missing route
ServeHTTPEmptySlotNotFound(H, r, method, path) ==
    IF method \notin DOMAIN verbs THEN MethodNotAllowed(Nil)
    ELSE IF Len(path) < 1 THEN Panic
    ELSE
        LET v == verbs[method]
            f == find(H, r, SliceFrom(path, 1), <<>>)
            t == f.node
        IN  IF t = Nil \/ ~Routed(H, t) THEN NotFound(t)
            ELSE
                LET h == H.routes[H.routers[t].rt].vb[v]
                IN  IF h # Nil THEN Called(h, f.names, t) ELSE NotFound(t)

\* ServeHTTP on the router at address r
ServeHTTP(H, r, method, path) ==
    IF method \notin DOMAIN verbs THEN MethodNotAllowed(Nil)
    ELSE IF Len(path) < 1 THEN Panic   \* req.URL.Path[1:] on an empty string
    ELSE
        LET v == verbs[method]
            f == find(H, r, SliceFrom(path, 1), <<>>)
            t == f.node
        IN  IF t = Nil \/ ~Routed(H, t) THEN NotFound(t)
            ELSE
                LET h == H.routes[H.routers[t].rt].vb[v]
                IN  IF h # Nil THEN Called(h, f.names, t) ELSE MethodNotAllowed(t)

\* Handle(verb, path, h) on the Builder
HandleOp(H, verb, path, h) ==
    LET p == place(H, Builder, SliceFrom(path, 1))
    IN  set(p.heap, p.node, verb, h)

\* HandleAll(path, h) on the Builder: set for i = 0 .. unknownVerb-1
RECURSIVE SetFrom(_, _, _, _)
SetFrom(H, n, i, h) ==
    IF i < unknownVerb THEN SetFrom(set(H, n, i, h), n, i + 1, h) ELSE H

HandleAllOp(H, path, h) ==
    LET p == place(H, Builder, SliceFrom(path, 1))
    IN  SetFrom(p.heap, p.node, 0, h)

\* Build: n := *r; *r = router{}; return &n
BuildOp(H) ==
    [heap |-> [H EXCEPT !.routers = Append([H.routers EXCEPT ![Builder] = ZeroRouter],
                                           H.routers[Builder])],
     node |-> Len(H.routers) + 1]

-----------------------------------------------------------------------------
(* The inputs: absolute paths of up to n segments over a set of segment    *)
(* names, every segment but the last followed by "/".                      *)

SegNames == {<<"a">>, <<Star>>}

\* the names a request segment is drawn from: the registered ones and the empty name
ReqNames == SegNames \cup {<<>>}

WithSlash(names) == {nm \o <<Slash>> : nm \in names}

RECURSIVE Inner(_, _)
Inner(names, n) ==
    IF n = 0 THEN {<<>>}
    ELSE {p \o s : p \in Inner(names, n - 1), s \in WithSlash(names)}

Bodies(names, n) ==
    {<<>>} \cup UNION {{p \o s : p \in Inner(names, i),
                                 s \in (names \ {<<>>}) \cup WithSlash(names)}
                       : i \in 0 .. (n - 1)}

AbsPaths(names, n) == {<<Slash>> \o b : b \in Bodies(names, n)}

\* request paths that are not absolute: the empty path, and paths with no leading "/"
OddPaths == {<<>>, <<"a">>, <<"a", Slash, "a">>}

RegVerbs == {Get, Post}

NoResp == [target |-> 0]

-----------------------------------------------------------------------------
(* The actions.                                                            *)

Init ==
    /\ heap = NewHeap
    /\ built = <<>>
    /\ log = <<>>
    /\ snap = <<>>
    /\ ncalls = 0
    /\ resp = NoResp
    /\ frozen = NewHeap
    /\ procs = <<>>

Handle(verb, path, h) ==
    /\ heap' = HandleOp(heap, verb, path, h)
    /\ log' = Append(log, [op |-> "Handle", verb |-> verb, path |-> path, h |-> h])
    /\ ncalls' = ncalls + 1
    /\ UNCHANGED <<built, snap, resp, frozen, procs>>

HandleAll(path, h) ==
    /\ heap' = HandleAllOp(heap, path, h)
    /\ log' = Append(log, [op |-> "HandleAll", verb |-> unknownVerb, path |-> path, h |-> h])
    /\ ncalls' = ncalls + 1
    /\ UNCHANGED <<built, snap, resp, frozen, procs>>

Build ==
    /\ heap' = BuildOp(heap).heap
    /\ built' = Append(built, BuildOp(heap).node)
    /\ snap' = Append(snap, log)
    /\ log' = <<>>
    /\ frozen' = BuildOp(heap).heap
    /\ UNCHANGED <<ncalls, resp, procs>>

\* one request served start to finish by the i-th built handler.  A
\* behaviour observes one dispatch: ServeHTTP writes nothing, so what a
\* dispatch does never depends on the dispatches before it.
Dispatch(i, method, path) ==
    /\ resp = NoResp
    /\ resp' = [target |-> i, method |-> method, path |-> path,
                out |-> ServeHTTP(heap, built[i], method, path)]
    /\ UNCHANGED <<heap, built, log, snap, ncalls, frozen, procs>>

\* Spec: the builder used freely (registrations, nil handlers, several
\* Builds) and dispatches on every handler it has returned, on short paths.
Next ==
    \/ /\ ncalls < MaxCalls
       /\ \E v \in RegVerbs, p \in AbsPaths(SegNames, MaxDepth), h \in {Nil, ncalls + 1} :
            Handle(v, p, h)
    \/ /\ ncalls < MaxCalls
       /\ \E p \in AbsPaths(SegNames, MaxDepth), h \in {Nil, ncalls + 1} :
            HandleAll(p, h)
    \/ /\ Len(built) < MaxBuilds
       /\ Build
    \/ \E i \in 1 .. Len(built), m \in {"GET", "DELETE", "BREW"},
          p \in AbsPaths(ReqNames, MaxDepth) \cup {<<>>} :
            Dispatch(i, m, p)

Spec == Init /\ [][Next]_vars

\* SpecMatch: one tree of deeper paths, built once, and every request on it.
NextMatch ==
    \/ /\ ncalls < MaxRegs
       /\ built = <<>>
       /\ \E v \in RegVerbs, p \in AbsPaths(SegNames, MaxSegs) : Handle(v, p, ncalls + 1)
    \/ /\ built = <<>>
       /\ Build
    \/ \E i \in 1 .. Len(built), m \in {"GET", "BREW"},
          p \in AbsPaths(ReqNames, MaxSegs) \cup OddPaths :
            Dispatch(i, m, p)

SpecMatch == Init /\ [][NextMatch]_vars

-----------------------------------------------------------------------------
(* Vocabulary of the properties: what was registered, what matches.        *)

\* the components of a path (without its leading "/"), in order
RECURSIVE Split(_)
Split(path) ==
    IF path = <<>> THEN <<>>
    ELSE <<NextKey(path)>> \o Split(SliceFrom(path, Len(NextKey(path))))

\* the router reached from r by following the child keys one by one, or nil
RECURSIVE Walk(_, _, _)
Walk(H, r, keys) ==
    IF keys = <<>> THEN r
    ELSE IF Child(H, r, keys[1]) = Nil THEN Nil
    ELSE Walk(H, Child(H, r, keys[1]), Tail(keys))

\* the handler stored for (v, path) under r: nil when the node or its route is missing
Slot(H, r, v, path) ==
    LET n == Walk(H, r, Split(SliceFrom(path, 1)))
    IN  IF n = Nil THEN Nil
        ELSE IF ~Routed(H, n) THEN Nil
        ELSE H.routes[H.routers[n].rt].vb[v]

\* call c stores a handler in the slot (v, path)
Targets(c, v, path) == c.path = path /\ (c.op = "HandleAll" \/ c.verb = v)

HasCall(calls, v, path) == \E i \in 1 .. Len(calls) : Targets(calls[i], v, path)

\* the handler of the most recent call that targeted (v, path), nil when none did
LastHandler(calls, v, path) ==
    IF ~HasCall(calls, v, path) THEN Nil
    ELSE LET i == CHOOSE i \in 1 .. Len(calls) :
                    /\ Targets(calls[i], v, path)
                    /\ \A j \in (i + 1) .. Len(calls) : ~Targets(calls[j], v, path)
         IN  calls[i].h

\* the paths some call registered
Patterns(calls) == {calls[i].path : i \in 1 .. Len(calls)}

\* pattern segment pk matches request segment rk
SegMatches(pk, rk) ==
    \/ pk = rk
    \/ pk = <<Star>> /\ rk[Len(rk)] # Slash
    \/ pk = <<Star, Slash>> /\ rk[Len(rk)] = Slash

\* pattern keys pat match the request keys req, segment by segment
KeysMatch(pat, req) ==
    /\ Len(pat) = Len(req)
    /\ \A i \in 1 .. Len(pat) : SegMatches(pat[i], req[i])

\* the registered absolute path pat matches the whole absolute request path
Matches(pat, path) ==
    /\ Len(path) > 0
    /\ path[1] = Slash
    /\ KeysMatch(Split(SliceFrom(pat, 1)), Split(SliceFrom(path, 1)))

\* p and q differ first at a segment where p is the literal request segment
LiteralFirst(p, q, req) ==
    \E i \in 1 .. Len(req) :
        /\ p[i] # q[i]
        /\ p[i] = req[i]
        /\ \A j \in 1 .. (i - 1) : p[j] = q[j]

\* The depth-first walk of the request keys that tries, at every node, the
\* literal child (0) before the wildcard child (1): its first routed end.
EdgeKeys(req, c) == [i \in 1 .. Len(req) |-> IF c[i] = 0 THEN req[i] ELSE WildKey(req[i])]

Hits(H, r, req) ==
    {c \in [1 .. Len(req) -> {0, 1}] :
        /\ Walk(H, r, EdgeKeys(req, c)) # Nil
        /\ Routed(H, Walk(H, r, EdgeKeys(req, c)))}

Earlier(c, d) == \E i \in DOMAIN c : c[i] < d[i] /\ \A j \in 1 .. (i - 1) : c[j] = d[j]

FirstHit(H, r, req) ==
    CHOOSE c \in Hits(H, r, req) : \A d \in Hits(H, r, req) \ {c} : Earlier(c, d)

FirstRouted(H, r, req) ==
    IF Hits(H, r, req) = {} THEN Nil ELSE Walk(H, r, EdgeKeys(req, FirstHit(H, r, req)))

\* the observed dispatch
Served == resp # NoResp
Known == resp.method \in DOMAIN verbs
Calls == snap[resp.target]
Root == built[resp.target]
ReqKeys == Split(SliceFrom(resp.path, 1))
\* the routed node the lookup selected, nil when it selected none
Selected == IF resp.out.t # Nil /\ Routed(heap, resp.out.t) THEN resp.out.t ELSE Nil
MatchingPatterns == {p \in Patterns(Calls) : Matches(p, resp.path)}

-----------------------------------------------------------------------------
(* C1.  Exact-path dispatch: a request for exactly a registered (verb,     *)
(* path) whose latest handler is non-nil calls that handler, once, with an *)
(* empty capture list; also for paths holding "*" segments and paths that  *)
(* other registered wildcard patterns match.                               *)
ExactPathDispatch ==
    (Served /\ Known /\ LastHandler(Calls, verbs[resp.method], resp.path) # Nil)
        => resp.out = Called(LastHandler(Calls, verbs[resp.method], resp.path),
                             <<>>, Walk(heap, Root, ReqKeys))

\* a registered path holding a "*" segment is dispatched literally while
\* another registered pattern matches it too
ExactPathWitness ==
    /\ Served /\ Known
    /\ LastHandler(Calls, verbs[resp.method], resp.path) # Nil
    /\ \E i \in 1 .. Len(resp.path) : resp.path[i] = Star
    /\ \E q \in MatchingPatterns : q # resp.path
    /\ resp.out.kind = "handler"

(* C3.  Concrete before wildcard: the node the lookup selects is the first *)
(* routed node of the depth-first walk that tries the literal child before *)
(* the wildcard child at every node; so of two matching patterns that      *)
(* differ first at a segment where one is literal, the other one's node is *)
(* never the one selected.                                                 *)
ConcreteBeforeWildcard ==
    (Served /\ Known /\ resp.out.kind # "panic") =>
        /\ Selected = FirstRouted(heap, Root, ReqKeys)
        /\ \A p \in MatchingPatterns, q \in MatchingPatterns :
               LiteralFirst(Split(SliceFrom(p, 1)), Split(SliceFrom(q, 1)), ReqKeys)
                   => Selected # Walk(heap, Root, Split(SliceFrom(q, 1)))

\* a literal and a wildcard pattern both match the request and a handler is called
ConcreteBeforeWildcardWitness ==
    /\ Served /\ Known
    /\ resp.out.kind = "handler"
    /\ \E p \in MatchingPatterns, q \in MatchingPatterns :
           LiteralFirst(Split(SliceFrom(p, 1)), Split(SliceFrom(q, 1)), ReqKeys)

(* C5.  405 for an unregistered verb: when the verb is recognized and the  *)
(* node the path alone selects is routed with an empty slot for the verb,  *)
(* the answer is 405 and no handler is called, also when another matching  *)
(* pattern has a handler for the verb.                                     *)
MethodNotAllowedOnEmptySlot ==
    (/\ Served /\ Known /\ Len(resp.path) > 0
     /\ FirstRouted(heap, Root, ReqKeys) # Nil
     /\ heap.routes[heap.routers[FirstRouted(heap, Root, ReqKeys)].rt].vb[verbs[resp.method]] = Nil)
        => (resp.out.kind = "405" /\ resp.out.h = Nil)

\* a 405 although another registered pattern matches the path and has a
\* handler for the requested verb
MethodNotAllowedWitness ==
    /\ Served /\ Known
    /\ resp.out.kind = "405"
    /\ \E q \in MatchingPatterns : LastHandler(Calls, verbs[resp.method], q) # Nil

\* the request segments the walk c consumed on wildcard edges, from the i-th
\* on.  An edge is a wildcard edge of the walk when the walk took it as the
\* wildcard alternative (c[i] = 1): a request segment that is itself "*" or
\* "*/" reaches the child of that key as its literal child (C1).
RECURSIVE CapturesFrom(_, _, _)
CapturesFrom(req, c, i) ==
    IF i > Len(req) THEN <<>>
    ELSE (IF c[i] = 1 THEN <<TrimRight(req[i], Slash)>> ELSE <<>>)
             \o CapturesFrom(req, c, i + 1)

(* C2.  Capture list: a called handler receives exactly the request        *)
(* segments (trailing "/" trimmed) consumed by the wildcard edges of the   *)
(* walk from the root to the matched node, in root-to-leaf order, one per  *)
(* wildcard edge taken and nothing else, also when the lookup explored and *)
(* abandoned another branch first.                                         *)
CaptureListIsMatchedPath ==
    (Served /\ resp.out.kind = "handler")
        => resp.out.names = CapturesFrom(ReqKeys, FirstHit(heap, Root, ReqKeys), 1)

(* C4.  404 exactly when nothing matches: for a recognized verb the answer *)
(* is 404, and no handler is called, if and only if no registered pattern  *)
(* matches the whole request path segment by segment.                      *)
NotFoundIffNoMatch ==
    (Served /\ Known)
        => /\ (resp.out.kind = "404") <=> (MatchingPatterns = {})
           /\ (resp.out.kind = "404") => (resp.out.h = Nil)

\* the same statement on the request paths that are not empty and begin with "/"
NotFoundIffNoMatchOnAbsolutePaths ==
    (Served /\ Known /\ Len(resp.path) > 0 /\ resp.path[1] = Slash)
        => /\ (resp.out.kind = "404") <=> (MatchingPatterns = {})
           /\ (resp.out.kind = "404") => (resp.out.h = Nil)

(* C9.  Wildcards match only non-empty segments: a wildcard edge of the    *)
(* matched walk is only taken for a request segment that is non-empty      *)
(* once its trailing "/" is trimmed, so no handler is ever called with an  *)
(* empty string among its captures.                                        *)
WildcardsMatchNonEmpty ==
    (Served /\ resp.out.kind = "handler")
        => /\ \A i \in 1 .. Len(resp.out.names) : resp.out.names[i] # <<>>
           /\ \A i \in 1 .. Len(ReqKeys) :
                  FirstHit(heap, Root, ReqKeys)[i] = 1 => TrimRight(ReqKeys[i], Slash) # <<>>

(* C10.  Dispatch is total: every dispatch ends with one handler called    *)
(* once, a 404 or a 405, never a panic; and a method outside the seven     *)
(* verbs yields 405 with no handler called, whatever the path.             *)
DispatchIsTotal ==
    Served
        => /\ resp.out.kind \in {"handler", "404", "405"}
           /\ ~Known => (resp.out.kind = "405" /\ resp.out.h = Nil)

\* the part of C10 that the code keeps: an unrecognized method yields 405
UnknownMethodIs405 ==
    (Served /\ ~Known) => (resp.out.kind = "405" /\ resp.out.h = Nil)

-----------------------------------------------------------------------------
(* The builder: C6 and C7, under Spec.                                     *)

\* every path some call has registered, in this builder generation or an earlier one
EverRegistered ==
    Patterns(log) \cup UNION {Patterns(snap[i]) : i \in 1 .. Len(snap)}

(* C7.  Last registration wins per (verb, path) slot: the handler stored   *)
(* for a slot, in the builder and in every snapshot, is the handler of the *)
(* most recent call that targeted it (Handle targets one verb, HandleAll   *)
(* all seven) and nil when none did, so no call changes a slot it does not *)
(* target; and a handler a dispatch calls is the latest one of its slot.   *)
LastRegistrationWins ==
    /\ \A v \in Verbs, p \in EverRegistered :
           /\ Slot(heap, Builder, v, p) = LastHandler(log, v, p)
           /\ \A i \in 1 .. Len(built) : Slot(heap, built[i], v, p) = LastHandler(snap[i], v, p)
    /\ (Served /\ resp.out.kind = "handler")
           => \E p \in Patterns(Calls) :
                  resp.out.h = LastHandler(Calls, verbs[resp.method], p)

\* a slot registered twice, once by HandleAll, and a dispatch that calls the later handler
LastRegistrationWitness ==
    /\ Served /\ Known
    /\ resp.out.kind = "handler"
    /\ \E i \in 1 .. Len(Calls), j \in 1 .. Len(Calls) :
           /\ i < j
           /\ Targets(Calls[i], verbs[resp.method], resp.path)
           /\ Targets(Calls[j], verbs[resp.method], resp.path)
           /\ "HandleAll" \in {Calls[i].op, Calls[j].op}
           /\ Calls[i].h # Nil
           /\ resp.out.h = Calls[j].h

\* the same calls made on a new builder, followed by Build
RECURSIVE Replay(_, _, _)
Replay(H, calls, i) ==
    IF i > Len(calls) THEN H
    ELSE Replay(IF calls[i].op = "HandleAll"
                THEN HandleAllOp(H, calls[i].path, calls[i].h)
                ELSE HandleOp(H, calls[i].verb, calls[i].path, calls[i].h),
                calls, i + 1)

\* what the caller of a dispatch can observe of it
Observable(out) == [kind |-> out.kind, h |-> out.h, names |-> out.names]

\* the outcome of the request on a handler built from exactly these calls
OutcomeOf(calls, method, path) ==
    LET b == BuildOp(Replay(NewHeap, calls, 1))
    IN  Observable(ServeHTTP(b.heap, b.node, method, path))

\* The outcome of a dispatch on a built handler is the outcome the calls
\* made between the previous Build (or New) and its own Build determine.
SnapshotDependsOnlyOnItsCalls ==
    Served => Observable(resp.out) = OutcomeOf(Calls, resp.method, resp.path)

\* a dispatch on an earlier handler after the builder went on to register
\* the requested path and was built again
SnapshotWitness ==
    /\ Served /\ Known
    /\ resp.target = 1
    /\ Len(built) = 2
    /\ resp.out.kind = "404"
    /\ LastHandler(snap[2], verbs[resp.method], resp.path) # Nil

(* C6.  Build is a consuming snapshot: the outcome of every dispatch on a  *)
(* built handler depends only on the calls made after the previous Build   *)
(* (or New) and before its own Build; and a handler built with no call     *)
(* since the previous Build answers 404 to every request with a            *)
(* recognized verb.                                                        *)
BuildIsConsumingSnapshot ==
    /\ SnapshotDependsOnlyOnItsCalls
    /\ (Served /\ Known /\ Calls = <<>>) => resp.out.kind = "404"

\* the second half of C6 on the requests whose path is not empty
EmptySnapshotIs404OnNonEmptyPaths ==
    (Served /\ Known /\ Calls = <<>> /\ Len(resp.path) > 0) => resp.out.kind = "404"

-----------------------------------------------------------------------------
(* Concurrent serving: each dispatch is one goroutine running ServeHTTP on *)
(* the built handler, one read of the tree or one append per step.  A      *)
(* goroutine holds its own names slice and its own stack of find frames    *)
(* [r, path, at]: at is "enter" at the top of find, "literal" while the    *)
(* call on the literal child runs, "fallback" before the wildcard check    *)
(* and "wildcard" while the call on the wildcard child runs.               *)

IdleProc ==
    [pc |-> "idle", method |-> "", path |-> <<>>, stack |-> <<>>,
     names |-> <<>>, ret |-> Nil, out |-> NoResp]

Top(pr) == pr.stack[Len(pr.stack)]

\* the component the top frame is working on, and the path that follows it
TopKey(pr) == NextKey(Top(pr).path)
TopRest(pr) == SliceFrom(Top(pr).path, Len(TopKey(pr)))

\* find calls find on child c with the rest of the path
CallFrame(pr, at, c) ==
    [pr EXCEPT !.stack = Append([pr.stack EXCEPT ![Len(pr.stack)].at = at],
                                [r |-> c, path |-> TopRest(pr), at |-> "enter"])]

\* find returns node n to its caller
ReturnFrame(pr, n) ==
    [pr EXCEPT !.stack = SubSeq(pr.stack, 1, Len(pr.stack) - 1),
               !.ret = n,
               !.pc = IF Len(pr.stack) = 1 THEN "respond" ELSE "find"]

\* the append on one names slice that every goroutine shares
AppendNameShared(ps, i, k) ==
    [j \in DOMAIN ps |-> [ps[j] EXCEPT !.names = Append(@, TrimRight(k, Slash))]]

\* *names = append(*names, strings.TrimRight(k, "/")) by goroutine i
AppendName(ps, i, k) == [ps EXCEPT ![i].names = Append(@, TrimRight(k, Slash))]

\* the calls that built the tree of the serving phase
ServeCalls ==
    << [op |-> "Handle", verb |-> Get, path |-> <<Slash, "a">>, h |-> 1],
       [op |-> "Handle", verb |-> Get, path |-> <<Slash, "a", Slash, Star>>, h |-> 2],
       [op |-> "Handle", verb |-> Get, path |-> <<Slash, "a", Slash, Star, Slash, "a">>, h |-> 3],
       [op |-> "Handle", verb |-> Get, path |-> <<Slash, Star, Slash, "a", Slash>>, h |-> 4],
       [op |-> "HandleAll", verb |-> unknownVerb, path |-> <<Slash, Star, Slash, Star>>, h |-> 5] >>

ServeRequests ==
    {[method |-> "GET", path |-> <<Slash, "a">>],
     [method |-> "GET", path |-> <<Slash, "a", Slash, "a">>],
     [method |-> "GET", path |-> <<Slash, "a", Slash, "a", Slash>>],
     [method |-> "DELETE", path |-> <<Slash, Star, Slash, "a">>],
     [method |-> "DELETE", path |-> <<Slash, "a">>],
     [method |-> "GET", path |-> <<Slash>>],
     [method |-> "BREW", path |-> <<Slash, "a">>],
     [method |-> "GET", path |-> <<Slash, Star, Slash, "a", Slash>>],
     [method |-> "PUT", path |-> <<Slash, "a", Slash, Star>>],
     [method |-> "GET", path |-> <<Slash, "a", Slash, "a", Slash, "a">>],
     [method |-> "GET", path |-> <<Slash, Slash, "a", Slash>>],
     [method |-> "GET", path |-> <<>>]}

InitServe ==
    /\ heap = NewHeap
    /\ built = <<>>
    /\ log = <<>>
    /\ snap = <<>>
    /\ ncalls = 0
    /\ resp = NoResp
    /\ frozen = NewHeap
    /\ procs = [i \in 1 .. NumProcs |-> IdleProc]

\* the single-threaded setup: the next call of ServeCalls, then Build
Setup ==
    /\ built = <<>>
    /\ IF ncalls < Len(ServeCalls)
       THEN LET c == ServeCalls[ncalls + 1]
            IN  IF c.op = "HandleAll" THEN HandleAll(c.path, c.h)
                ELSE Handle(c.verb, c.path, c.h)
       ELSE Build

ServeUnchanged == UNCHANGED <<heap, built, log, snap, ncalls, resp, frozen>>

\* a request arrives and ServeHTTP is entered on the built handler
Start(i, req) ==
    /\ built # <<>>
    /\ procs[i].pc = "idle"
    /\ procs' = [procs EXCEPT ![i].pc = "verb", ![i].method = req.method,
                              ![i].path = req.path]
    /\ ServeUnchanged

\* v, ok := verbs[req.Method]
LookupVerb(i) ==
    /\ procs[i].pc = "verb"
    /\ procs' = IF procs[i].method \in DOMAIN verbs
                THEN [procs EXCEPT ![i].pc = "slice"]
                ELSE [procs EXCEPT ![i].pc = "done", ![i].out = MethodNotAllowed(Nil)]
    /\ ServeUnchanged

\* var names []string; r.find(req.URL.Path[1:], &names)
CallFind(i) ==
    /\ procs[i].pc = "slice"
    /\ procs' = IF Len(procs[i].path) < 1
                THEN [procs EXCEPT ![i].pc = "done", ![i].out = Panic]
                ELSE [procs EXCEPT ![i].pc = "find", ![i].names = <<>>,
                                   ![i].stack = <<[r |-> built[1],
                                                   path |-> SliceFrom(procs[i].path, 1),
                                                   at |-> "enter"]>>]
    /\ ServeUnchanged

\* the top of find: the empty path returns r; else the literal child is read
FindEnter(i) ==
    /\ procs[i].pc = "find"
    /\ Top(procs[i]).at = "enter"
    /\ procs' = [procs EXCEPT ![i] =
           IF Top(@).path = <<>> THEN ReturnFrame(@, Top(@).r)
           ELSE IF Child(heap, Top(@).r, TopKey(@)) # Nil
                THEN CallFrame(@, "literal", Child(heap, Top(@).r, TopKey(@)))
                ELSE [@ EXCEPT !.stack[Len(@.stack)].at = "fallback"]]
    /\ ServeUnchanged

\* the call on the literal child has returned h
FindLiteralReturn(i) ==
    /\ procs[i].pc = "find"
    /\ Top(procs[i]).at = "literal"
    /\ procs' = [procs EXCEPT ![i] =
           IF @.ret # Nil /\ Routed(heap, @.ret) THEN ReturnFrame(@, @.ret)
           ELSE [@ EXCEPT !.stack[Len(@.stack)].at = "fallback"]]
    /\ ServeUnchanged

\* the wildcard child is read; when there is one the component is captured
FindWildcard(i) ==
    /\ procs[i].pc = "find"
    /\ Top(procs[i]).at = "fallback"
    /\ procs' =
           IF Child(heap, Top(procs[i]).r, WildKey(TopKey(procs[i]))) # Nil
           THEN [AppendName(procs, i, TopKey(procs[i])) EXCEPT ![i] =
                    CallFrame(@, "wildcard",
                              Child(heap, Top(@).r, WildKey(TopKey(@))))]
           ELSE [procs EXCEPT ![i] = ReturnFrame(@, Nil)]
    /\ ServeUnchanged

\* the call on the wildcard child has returned h
FindWildcardReturn(i) ==
    /\ procs[i].pc = "find"
    /\ Top(procs[i]).at = "wildcard"
    /\ procs' = [procs EXCEPT ![i] =
           IF @.ret # Nil /\ Routed(heap, @.ret) THEN ReturnFrame(@, @.ret)
           ELSE ReturnFrame(@, Nil)]
    /\ ServeUnchanged

\* find has returned t to ServeHTTP: 404, the handler, or 405
Respond(i) ==
    /\ procs[i].pc = "respond"
    /\ procs' = [procs EXCEPT ![i].pc = "done", ![i].out =
           LET t == procs[i].ret
           IN  IF t = Nil \/ ~Routed(heap, t) THEN NotFound(t)
               ELSE LET h == heap.routes[heap.routers[t].rt].vb[verbs[procs[i].method]]
                    IN  IF h # Nil THEN Called(h, procs[i].names, t)
                        ELSE MethodNotAllowed(t)]
    /\ ServeUnchanged

NextServe ==
    \/ Setup
    \/ \E i \in 1 .. NumProcs :
        \/ \E req \in ServeRequests : Start(i, req)
        \/ LookupVerb(i)
        \/ CallFind(i)
        \/ FindEnter(i)
        \/ FindLiteralReturn(i)
        \/ FindWildcard(i)
        \/ FindWildcardReturn(i)
        \/ Respond(i)

SpecServe == InitServe /\ [][NextServe]_vars

(* C8.  Lock-free concurrent serving: dispatches on a built handler,       *)
(* interleaved step by step, leave every node's child map and verb table   *)
(* as Build left them, and each ends with the outcome (handler, capture    *)
(* list, 404 or 405) it would have if it ran alone.                        *)
ConcurrentServing ==
    /\ built # <<>> => heap = frozen
    /\ \A i \in DOMAIN procs :
           procs[i].pc = "done"
               => procs[i].out = ServeHTTP(frozen, built[1], procs[i].method, procs[i].path)

\* one dispatch has called a handler with captures while another, whose
\* lookup has captured a segment too, is still walking the tree
ConcurrentServingWitness ==
    \E i \in DOMAIN procs, j \in DOMAIN procs :
        /\ i # j
        /\ procs[i].pc = "done"
        /\ procs[i].out.kind = "handler"
        /\ procs[i].out.names # <<>>
        /\ procs[j].pc = "find"
        /\ procs[j].names # <<>>
        /\ procs[j].names # procs[i].out.names

=============================================================================
